---------------------------- MODULE Spec2Model ----------------------------
(***************************************************************************)
(* Model of the two scripts of the repository:                             *)
(*   src/Python/test.py                     the Directory Stub Creator     *)
(*   src/frontend-learn/HTML/print_file.py  the Folder Content Printer     *)
(* The scripts are unrelated; each has its own specification (SpecStub,    *)
(* SpecPrinter) over its own variables, the other script standing still.   *)
(*                                                                         *)
(* test.py builds its paths with a hard-coded backslash separator          *)
(* (f'{base}\{dir}\\README.md').  The filesystem modelled here is one on   *)
(* which the backslash separates path components, the platform the script  *)
(* is written for, so that path names <cwd>\<dir>\README.md inside <dir>.  *)
(***************************************************************************)
EXTENDS Integers, Sequences, FiniteSets, TLC

\* ------------------------------------------------------------------ bounds
\* Number of names an entry of the working directory may carry.
MaxEntries == 4
\* Longest directory listing of the folder handed to the printer.
MaxFiles == 3

\* ------------------------------------------------------------- shared helpers
\* All orders in which the members of a finite set can be listed.
Perms(S) ==
    { s \in [1..Cardinality(S) -> S] : \A i, j \in 1..Cardinality(S) : s[i] = s[j] => i = j }

\* The members of a sequence.
Range(s) == { s[i] : i \in 1..Len(s) }

(***************************************************************************)
(*                    Directory Stub Creator (test.py)                     *)
(***************************************************************************)
VARIABLES
    kind,        \* the working directory: entry name -> "none" | "file" | "dir"
    readme,      \* subdirectory name -> contents of its README.md (NoFile if absent)
    readme0,     \* readme before the first run
    readmePrev,  \* readme when the current run started
    run,         \* "first" | "second": the script is run twice in a row
    excPrev,     \* how the previous run ended ("none" before the second run exists)
    listing,     \* what os.listdir(base) returned in the current run
    folder,      \* the script's list `folder`
    idx,         \* position of the for loop in `folder`
    created,     \* directories whose README.md this run created (one "File Created" line each)
    exc,         \* the uncaught exception of the current run, "none" if none
    pc           \* "start" | "loop" | "done" | "raised"

stubVars == <<kind, readme, readme0, readmePrev, run, excPrev, listing, folder, idx, created, exc, pc>>

\* The Folder Content Printer's variables (its model is the second half of the module).
VARIABLES
    names,        \* os.listdir(folder) of the one existing folder, in listing order
    attr,         \* position in names -> "dir" | "ok" | "openfail" | "readfail"
    file_type,    \* the stripped answer to the extension prompt, line 24
    folder_path,  \* argument of print_all_files_in_folder
    extension,    \* argument of print_all_files_in_folder (None for no filter)
    pos,          \* position of the for loop of line 16 in names; 0 before the loop
    opened,       \* the paths handed to open(), in order
    out,          \* the lines printed, in order: records [t, name]
    ppc           \* "main" | "call" | "loop" | "returned" | "raised"

printerVars == <<names, attr, file_type, folder_path, extension, pos, opened, out, ppc>>

vars == <<stubVars, printerVars>>

\* The Directory Stub Creator is not running (its variables at rest).
StubIdle ==
    /\ kind = <<>>
    /\ readme = <<>>
    /\ readme0 = <<>>
    /\ readmePrev = <<>>
    /\ run = "first"
    /\ excPrev = "none"
    /\ listing = <<>>
    /\ folder = <<>>
    /\ idx = 1
    /\ created = {}
    /\ exc = "none"
    /\ pc = "idle"

\* The Folder Content Printer is not running (its variables at rest).
PrinterIdle ==
    /\ names = <<>>
    /\ attr = <<>>
    /\ file_type = <<>>
    /\ folder_path = <<>>
    /\ extension = <<>>
    /\ pos = 0
    /\ opened = <<>>
    /\ out = <<>>
    /\ ppc = "idle"

Names == 1..MaxEntries

NoFile == "NoFile"
\* A README.md is absent, empty (as the script creates it) or holds text.
Content == {NoFile, "", "text"}

\* os.path.isdir(file), line 25, for an entry of the listing.
IsDir(file) == kind[file] = "dir"

\* os.path.isfile(cur_path), line 32: cur_path is <base>\<dir>\README.md.
IsFile(fs, dir) == fs[dir] # NoFile

\* [file for file in os.listdir(base) if os.path.isdir(file)], line 25.
Subdirs(ls) == SelectSeq(ls, IsDir)

\* folder.pop(), dropping the last element instead of the first.
PopLast(f) == SubSeq(f, 1, Len(f) - 1)

\* folder.pop(0), line 26, on a non-empty list: the list without its first element.
Pop0(f) == Tail(f)

\* open(cur_path, 'x') succeeding, line 33: exclusive creation makes an empty file at a
\* path where none exists, and never opens (or truncates) an existing file.
OpenX(fs, dir) == IF fs[dir] = NoFile THEN [fs EXCEPT ![dir] = ""] ELSE fs

\* Lines 32-33 written as "open(cur_path, 'w')" with no existence test: every visited
\* README.md is truncated.
ReadmeTruncated(fs, dir) == [fs EXCEPT ![dir] = ""]

\* Lines 32-33 when nothing raises: the README.md files after one iteration on dir.
ReadmeAfter(fs, dir) == IF IsFile(fs, dir) THEN fs ELSE OpenX(fs, dir)

\* The directories whose "File Created" line has been printed after the same iteration
\* (line 34 runs exactly when line 33 created the file).
CreatedAfter(fs, dir, cr) == IF ReadmeAfter(fs, dir) # fs THEN cr \cup {dir} ELSE cr

InitStub ==
    /\ kind \in [Names -> {"none", "file", "dir"}]
    /\ readme \in [Names -> Content]
    /\ \A d \in Names : kind[d] # "dir" => readme[d] = NoFile
    /\ readme0 = readme
    /\ readmePrev = readme
    /\ run = "first"
    /\ excPrev = "none"
    /\ listing = <<>>
    /\ folder = <<>>
    /\ idx = 1
    /\ created = {}
    /\ exc = "none"
    /\ pc = "start"
    /\ PrinterIdle

\* Lines 24-25 when os.listdir(base) raises (the directory cannot be listed).
ListdirRaises ==
    /\ pc = "start"
    /\ pc' = "raised"
    /\ exc' = "OSError"
    /\ UNCHANGED <<kind, readme, readme0, readmePrev, run, excPrev, listing, folder, idx, created>>
    /\ UNCHANGED printerVars

\* Lines 24-28: list the working directory (in any order), keep the directories,
\* drop the first of them.
Scan ==
    /\ pc = "start"
    /\ \E ls \in Perms({ e \in Names : kind[e] # "none" }) :
          /\ listing' = ls
          /\ Subdirs(ls) # <<>>
          /\ folder' = Pop0(Subdirs(ls))
    /\ idx' = 1
    /\ pc' = "loop"
    /\ UNCHANGED <<kind, readme, readme0, readmePrev, run, excPrev, created, exc>>
    /\ UNCHANGED printerVars

\* Lines 24-26 when no entry is a directory: folder.pop(0) on the empty list
\* raises IndexError, which nothing catches.
ScanPopEmpty ==
    /\ pc = "start"
    /\ \E ls \in Perms({ e \in Names : kind[e] # "none" }) :
          /\ listing' = ls
          /\ Subdirs(ls) = <<>>
          /\ folder' = <<>>
    /\ pc' = "raised"
    /\ exc' = "IndexError"
    /\ UNCHANGED <<kind, readme, readme0, readmePrev, run, excPrev, idx, created>>
    /\ UNCHANGED printerVars

\* Lines 29-32, one iteration whose directory already has a README.md: the guard of
\* line 32 is false, nothing is opened and nothing is printed.
ForSkip ==
    /\ pc = "loop"
    /\ idx <= Len(folder)
    /\ IsFile(readme, folder[idx])
    /\ readme' = ReadmeAfter(readme, folder[idx])
    /\ created' = CreatedAfter(readme, folder[idx], created)
    /\ idx' = idx + 1
    /\ UNCHANGED <<kind, readme0, readmePrev, run, excPrev, listing, folder, exc, pc>>
    /\ UNCHANGED printerVars

\* Lines 29-34, one iteration whose directory has no README.md and open(..., 'x') succeeds.
ForCreate ==
    /\ pc = "loop"
    /\ idx <= Len(folder)
    /\ ~IsFile(readme, folder[idx])
    /\ readme' = ReadmeAfter(readme, folder[idx])
    /\ created' = CreatedAfter(readme, folder[idx], created)
    /\ idx' = idx + 1
    /\ UNCHANGED <<kind, readme0, readmePrev, run, excPrev, listing, folder, exc, pc>>
    /\ UNCHANGED printerVars

\* The failing open(..., 'x') wrapped in a try/except inside the loop: the error is
\* noted and the loop goes on to the next directory.
ForCreateCaught ==
    /\ pc = "loop"
    /\ idx <= Len(folder)
    /\ ~IsFile(readme, folder[idx])
    /\ exc' = "OSError"
    /\ idx' = idx + 1
    /\ UNCHANGED <<kind, readme, readme0, readmePrev, run, excPrev, listing, folder, created, pc>>
    /\ UNCHANGED printerVars

\* Lines 29-33, one iteration whose open(..., 'x') raises (permission error, invalid
\* path): there is no try in the script, the exception ends the run.
ForCreateRaises ==
    /\ pc = "loop"
    /\ idx <= Len(folder)
    /\ ~IsFile(readme, folder[idx])
    /\ pc' = "raised"
    /\ exc' = "OSError"
    /\ UNCHANGED <<kind, readme, readme0, readmePrev, run, excPrev, listing, folder, idx, created>>
    /\ UNCHANGED printerVars

\* The for loop of line 29 is exhausted: the script ends normally.
ForEnd ==
    /\ pc = "loop"
    /\ idx > Len(folder)
    /\ pc' = "done"
    /\ UNCHANGED <<kind, readme, readme0, readmePrev, run, excPrev, listing, folder, idx, created, exc>>
    /\ UNCHANGED printerVars

\* The script is started a second time on the tree the first run left.
Rerun ==
    /\ pc \in {"done", "raised"}
    /\ run = "first"
    /\ run' = "second"
    /\ excPrev' = exc
    /\ readmePrev' = readme
    /\ listing' = <<>>
    /\ folder' = <<>>
    /\ idx' = 1
    /\ created' = {}
    /\ exc' = "none"
    /\ pc' = "start"
    /\ UNCHANGED <<kind, readme, readme0>>
    /\ UNCHANGED printerVars

NextStub ==
    \/ ListdirRaises
    \/ Scan
    \/ ScanPopEmpty
    \/ ForSkip
    \/ ForCreate
    \/ ForCreateRaises
    \/ ForEnd

\* One run of the script.
SpecStub == InitStub /\ [][NextStub]_vars

\* Two runs of the script in a row on the same tree.
NextStubTwice ==
    \/ NextStub
    \/ Rerun

SpecStubTwice == InitStub /\ [][NextStubTwice]_vars

\* ------------------------------------------------------- claims on test.py

\* The run is over, normally or by an uncaught exception.
RunOver == pc \in {"done", "raised"}

\* The subdirectories d1..dn of the current run's listing, in listing order.
ListedDirs == Subdirs(listing)

\* C1: a README.md that exists before the first run (empty or not) has the same
\* contents in every state of the run, whatever the listing order, whatever else is
\* processed, however the run ends.
C1_NeverOverwrites ==
    \A d \in Names : readme0[d] # NoFile => readme[d] = readme0[d]

\* C1 witness: a run has ended normally after visiting (not skipping as first) a
\* directory whose README.md held text and an empty one, and creating another.
C1_Witness ==
    /\ pc = "done"
    /\ created # {}
    /\ \E d \in Range(folder) : readme0[d] = "text"
    /\ \E d \in Range(folder) : readme0[d] = ""

\* C2 (as claimed): after a first run that ended normally, a second run that meets no
\* I/O error leaves every README.md as the first run left it, creates nothing and
\* raises nothing, whatever order each run's listing came in.
C2_Idempotent ==
    (run = "second" /\ RunOver /\ excPrev = "none" /\ exc # "OSError")
        => (readme = readmePrev /\ created = {} /\ exc = "none")

\* C3: with d1..dn the listed subdirectories, the run never creates a README.md in
\* d1, and a run that ends normally ends with a README.md in each of d2..dn, created
\* by this run exactly where it was absent.
C3_SkipFirst ==
    (listing # <<>> /\ ListedDirs # <<>>) =>
        /\ ListedDirs[1] \notin created
        /\ readme[ListedDirs[1]] = readmePrev[ListedDirs[1]]
        /\ pc = "done" =>
              \A i \in 2..Len(ListedDirs) :
                  /\ IsFile(readme, ListedDirs[i])
                  /\ (ListedDirs[i] \in created) <=> ~IsFile(readmePrev, ListedDirs[i])

\* C3 witness: a run over three or more subdirectories, none with a README.md, has
\* ended normally.
C3_Witness ==
    /\ pc = "done"
    /\ Len(ListedDirs) >= 3
    /\ \A i \in 1..Len(ListedDirs) : ~IsFile(readmePrev, ListedDirs[i])

\* Creating README.md has failed for the directory at position idx of folder.
CreateFailed == exc = "OSError" /\ listing # <<>>

\* C9: once creating README.md has failed for the k-th processed directory the run
\* is over with the exception uncaught; every README.md of the directories before
\* it is in place (those this run created included) and no directory from the k-th
\* on has been touched.
C9_NoCatchNoRollback ==
    CreateFailed =>
        /\ pc = "raised"
        /\ idx \in 1..Len(folder)
        /\ \A j \in 1..(idx - 1) :
              /\ IsFile(readme, folder[j])
              /\ ~IsFile(readmePrev, folder[j]) => (folder[j] \in created /\ readme[folder[j]] = "")
        /\ \A j \in idx..Len(folder) :
              /\ folder[j] \notin created
              /\ readme[folder[j]] = readmePrev[folder[j]]

\* C9 witness: creation failed for the second processed directory, after the first
\* one's README.md was created, with a third directory still lacking one.
C9_Witness ==
    /\ CreateFailed
    /\ idx = 2
    /\ Len(folder) >= 3
    /\ folder[1] \in created
    /\ ~IsFile(readme, folder[3])

\* C10 (as claimed): a run ends in an uncaught exception only when listing the
\* directory or creating a file failed, and a run on a working directory without
\* subdirectories that meets no such failure exits normally with nothing created.
C10_OnlyIOFailuresRaise ==
    /\ pc = "raised" => exc = "OSError"
    /\ (RunOver /\ exc # "OSError" /\ \A e \in Names : ~IsDir(e)) => (pc = "done" /\ created = {})

(***************************************************************************)
(*                 Folder Content Printer (print_file.py)                  *)
(* Strings are sequences of one-character strings, so that strip, join,    *)
(* basename and endswith are computed as the library computes them.        *)
(***************************************************************************)

Sep == "/"
Space == " "

\* The one folder that exists, a path that exists but is a regular file, and a path
\* that does not exist.
TheFolder == <<"d">>
AFilePath == <<"f">>
NoSuchPath == <<"x">>

\* Python's None for the extension argument: no sequence of characters.
None == <<"None">>

NamePool ==
    { <<"a", ".", "t", "x", "t">>,
      <<"b", ".", "l", "o", "g">>,
      <<"c", ".", "t", "x", "t">>,
      <<"t", "x", "t">> }

\* What the user may type at the two prompts of lines 23-24.
FolderInputs == { TheFolder, <<Space>> \o TheFolder, AFilePath, NoSuchPath, <<Space>> }
ExtensionInputs ==
    { <<>>, <<Space>>,
      <<".", "t", "x", "t">>, <<".", "t", "x", "t", Space>>,
      <<".", "l", "o", "g">>,
      <<"t", "x", "t">> }

\* A file of the folder is a subdirectory, or a regular file that reads well, cannot be
\* opened (permission), or opens and then fails in read() (not UTF-8, I/O error).
Attr == {"dir", "ok", "openfail", "readfail"}

\* str.strip(), lines 23-24: leading and trailing whitespace removed.
RECURSIVE LStrip(_)
LStrip(s) == IF s # <<>> /\ Head(s) = Space THEN LStrip(Tail(s)) ELSE s
RECURSIVE RStrip(_)
RStrip(s) == IF s # <<>> /\ s[Len(s)] = Space THEN RStrip(SubSeq(s, 1, Len(s) - 1)) ELSE s
Strip(s) == RStrip(LStrip(s))

\* file_type if file_type else None, line 25: the empty string is falsy.
ExtensionArg(ft) == IF ft # <<>> THEN ft ELSE None

\* os.path.isdir(folder_path), line 12.
IsDirPath(p) == p = TheFolder

\* os.path.join(folder_path, filename), line 17, for a relative filename.
Join(p, filename) ==
    IF p = <<>> \/ p[Len(p)] = Sep THEN p \o filename ELSE p \o <<Sep>> \o filename

\* os.path.basename(file_path), lines 5 and 7: what follows the last separator.
RECURSIVE Basename(_)
Basename(p) ==
    IF \E i \in 1..Len(p) : p[i] = Sep THEN Basename(Tail(p)) ELSE p

\* filename.endswith(extension), line 19.
EndsWith(s, suffix) ==
    /\ Len(suffix) <= Len(s)
    /\ SubSeq(s, Len(s) - Len(suffix) + 1, Len(s)) = suffix

\* The filter of line 19 with startswith in place of endswith.
StartsWithFilter(filename, ext) ==
    ext = None \/ (Len(ext) <= Len(filename) /\ SubSeq(filename, 1, Len(ext)) = ext)

\* extension is None or filename.endswith(extension), line 19.
Matches(filename, ext) == ext = None \/ EndsWith(filename, ext)

\* Line 18 dropped: every entry counts as a regular file.
IsAnyEntry(i) == TRUE

\* os.path.isfile(file_path), line 18, for the entry at position i of the listing.
IsRegularFile(i) == attr[i] # "dir"

\* The lines print_file_contents prints.
Banner(file_path) == [t |-> "open", name |-> Basename(file_path)]
Body(file_path) == [t |-> "content", name |-> Basename(file_path)]
Footer(file_path) == [t |-> "end", name |-> Basename(file_path)]
ReadError(file_path) == [t |-> "error", name |-> file_path]
\* The line of line 13.
DirError(p) == [t |-> "direrror", name |-> p]

\* print_file_contents(file_path), lines 2-9, for a file in state st: the lines printed.
\* open() failing prints the error only; read() failing comes after the opening banner
\* of line 5 is out, and the except clause then prints the error.
PrintFileContents(file_path, st) ==
    CASE st = "ok" -> <<Banner(file_path), Body(file_path), Footer(file_path)>>
      [] st = "readfail" -> <<Banner(file_path), ReadError(file_path)>>
      [] OTHER -> <<ReadError(file_path)>>

InitPrinter ==
    /\ names \in UNION { [1..k -> NamePool] : k \in 0..MaxFiles }
    /\ \A i, j \in 1..Len(names) : names[i] = names[j] => i = j
    /\ attr \in [1..Len(names) -> Attr]
    /\ file_type = <<>>
    /\ folder_path = <<>>
    /\ extension = None
    /\ pos = 0
    /\ opened = <<>>
    /\ out = <<>>
    /\ ppc = "main"
    /\ StubIdle

\* Lines 22-25: the two prompts, stripped, and the call.
Main ==
    /\ ppc = "main"
    /\ \E folder_in \in FolderInputs, type_in \in ExtensionInputs :
          /\ folder_path' = Strip(folder_in)
          /\ file_type' = Strip(type_in)
          /\ extension' = ExtensionArg(Strip(type_in))
    /\ ppc' = "call"
    /\ UNCHANGED <<names, attr, pos, opened, out>>
    /\ UNCHANGED stubVars

\* Line 14 missing: after the error line the function goes on to os.listdir, which
\* raises on a path that is no directory.
InvalidFolderFallsThrough ==
    /\ ppc = "call"
    /\ ~IsDirPath(folder_path)
    /\ out' = Append(out, DirError(folder_path))
    /\ ppc' = "raised"
    /\ UNCHANGED <<names, attr, file_type, folder_path, extension, pos, opened>>
    /\ UNCHANGED stubVars

\* Lines 12-14: the path is no directory; one error line, then return.
InvalidFolder ==
    /\ ppc = "call"
    /\ ~IsDirPath(folder_path)
    /\ out' = Append(out, DirError(folder_path))
    /\ ppc' = "returned"
    /\ UNCHANGED <<names, attr, file_type, folder_path, extension, pos, opened>>
    /\ UNCHANGED stubVars

\* Line 16 when os.listdir(folder_path) raises (the directory cannot be read): nothing
\* in the function catches it.
PrinterListdirRaises ==
    /\ ppc = "call"
    /\ IsDirPath(folder_path)
    /\ ppc' = "raised"
    /\ UNCHANGED <<names, attr, file_type, folder_path, extension, pos, opened, out>>
    /\ UNCHANGED stubVars

\* Line 16: the directory is listed and the loop starts.
Listdir ==
    /\ ppc = "call"
    /\ IsDirPath(folder_path)
    /\ pos' = 1
    /\ ppc' = "loop"
    /\ UNCHANGED <<names, attr, file_type, folder_path, extension, opened, out>>
    /\ UNCHANGED stubVars

\* Lines 16-19, one iteration on an entry that is no regular file or does not match.
VisitSkip ==
    /\ ppc = "loop"
    /\ pos <= Len(names)
    /\ ~(IsRegularFile(pos) /\ Matches(names[pos], extension))
    /\ pos' = pos + 1
    /\ UNCHANGED <<names, attr, file_type, folder_path, extension, opened, out, ppc>>
    /\ UNCHANGED stubVars

\* Lines 16-20 and 2-7, one iteration on a matching regular file that reads well.
VisitPrint ==
    /\ ppc = "loop"
    /\ pos <= Len(names)
    /\ IsRegularFile(pos) /\ Matches(names[pos], extension)
    /\ attr[pos] = "ok"
    /\ opened' = Append(opened, Join(folder_path, names[pos]))
    /\ out' = out \o PrintFileContents(Join(folder_path, names[pos]), attr[pos])
    /\ pos' = pos + 1
    /\ UNCHANGED <<names, attr, file_type, folder_path, extension, ppc>>
    /\ UNCHANGED stubVars

\* print_file_contents without its try/except: the exception leaves the loop and the
\* function.
VisitPrintUncaught ==
    /\ ppc = "loop"
    /\ pos <= Len(names)
    /\ IsRegularFile(pos) /\ Matches(names[pos], extension)
    /\ attr[pos] # "ok"
    /\ opened' = Append(opened, Join(folder_path, names[pos]))
    /\ out' = IF attr[pos] = "readfail" THEN Append(out, Banner(Join(folder_path, names[pos]))) ELSE out
    /\ ppc' = "raised"
    /\ UNCHANGED <<names, attr, file_type, folder_path, extension, pos>>
    /\ UNCHANGED stubVars

\* Lines 16-20 and 2-9, one iteration on a matching entry whose open() or read()
\* raises: the except clause of line 8 prints the error and the loop goes on.
VisitPrintFails ==
    /\ ppc = "loop"
    /\ pos <= Len(names)
    /\ IsRegularFile(pos) /\ Matches(names[pos], extension)
    /\ attr[pos] # "ok"
    /\ opened' = Append(opened, Join(folder_path, names[pos]))
    /\ out' = out \o PrintFileContents(Join(folder_path, names[pos]), attr[pos])
    /\ pos' = pos + 1
    /\ UNCHANGED <<names, attr, file_type, folder_path, extension, ppc>>
    /\ UNCHANGED stubVars

\* The loop of line 16 is exhausted: the function returns.
LoopEnd ==
    /\ ppc = "loop"
    /\ pos > Len(names)
    /\ ppc' = "returned"
    /\ UNCHANGED <<names, attr, file_type, folder_path, extension, pos, opened, out>>
    /\ UNCHANGED stubVars

NextPrinter ==
    \/ Main
    \/ InvalidFolder
    \/ PrinterListdirRaises
    \/ Listdir
    \/ VisitSkip
    \/ VisitPrint
    \/ VisitPrintFails
    \/ LoopEnd

SpecPrinter == InitPrinter /\ [][NextPrinter]_vars

\* ---------------------------------------------------- claims on print_file.py

\* print_all_files_in_folder has returned after looping over a valid folder.
ReturnedFromLoop == ppc = "returned" /\ IsDirPath(folder_path)

\* The positions of the listing, in listing order.
Positions == [i \in 1..Len(names) |-> i]

\* The names printed in opening banners, in output order.
IsBanner(line) == line.t = "open"
BannerLines == SelectSeq(out, IsBanner)
BannerNames == [k \in 1..Len(BannerLines) |-> BannerLines[k].name]

\* The regular files of the listing whose name ends with ext, in listing order: all of
\* them, and those of them that open() can open.
SuffixFiles(ext) ==
    SelectSeq(Positions, LAMBDA i : attr[i] # "dir" /\ EndsWith(names[i], ext))
SuffixFilesOpenable(ext) ==
    SelectSeq(Positions, LAMBDA i : attr[i] \in {"ok", "readfail"} /\ EndsWith(names[i], ext))
\* The regular files of the listing, in listing order: all, and those open() can open.
RegularFiles == SelectSeq(Positions, LAMBDA i : attr[i] # "dir")
RegularFilesOpenable == SelectSeq(Positions, LAMBDA i : attr[i] \in {"ok", "readfail"})

NamesAt(ps) == [k \in 1..Len(ps) |-> names[ps[k]]]
PathsAt(ps) == [k \in 1..Len(ps) |-> folder_path \o <<Sep>> \o names[ps[k]]]

\* C4: on a valid folder with a non-empty extension, the files handed to
\* print_file_contents are exactly the regular files of the listing whose name ends
\* with the extension, in listing order, each once; an opening banner is printed for
\* each of them that can be opened, in the same order (for all of them when no open
\* fails).
C4_FilterCorrect ==
    (ReturnedFromLoop /\ file_type # <<>>) =>
        /\ opened = PathsAt(SuffixFiles(file_type))
        /\ BannerNames = NamesAt(SuffixFilesOpenable(file_type))

\* C4 witness: the folder lists a.txt, b.log, c.txt, all readable, the extension is
\* .txt, and the call has returned having printed banners for a.txt then c.txt.
C4_Witness ==
    /\ ReturnedFromLoop
    /\ file_type = <<".", "t", "x", "t">>
    /\ names = << <<"a", ".", "t", "x", "t">>, <<"b", ".", "l", "o", "g">>, <<"c", ".", "t", "x", "t">> >>
    /\ \A i \in 1..Len(names) : attr[i] = "ok"
    /\ BannerNames = << <<"a", ".", "t", "x", "t">>, <<"c", ".", "t", "x", "t">> >>

\* C5: with an empty answer to the extension prompt, every regular file of the folder
\* is handed to print_file_contents, in listing order, each once, and banners are
\* printed for those that can be opened; no subdirectory is opened or named in the
\* output, and every path opened is an immediate entry of the folder.
C5_NoFilter ==
    (ReturnedFromLoop /\ file_type = <<>>) =>
        /\ extension = None
        /\ opened = PathsAt(RegularFiles)
        /\ BannerNames = NamesAt(RegularFilesOpenable)
        /\ \A i \in 1..Len(names) : attr[i] = "dir" =>
              /\ \A k \in 1..Len(out) : out[k].name \notin {names[i], folder_path \o <<Sep>> \o names[i]}
              /\ \A k \in 1..Len(opened) : opened[k] # folder_path \o <<Sep>> \o names[i]
        /\ \A k \in 1..Len(opened) :
              \E i \in 1..Len(names) : opened[k] = folder_path \o <<Sep>> \o names[i]

\* C5 witness: no filter, a folder holding a subdirectory between two readable files.
C5_Witness ==
    /\ ReturnedFromLoop
    /\ file_type = <<>>
    /\ Len(names) = 3
    /\ attr = <<"ok", "dir", "ok">>
    /\ Len(BannerNames) = 2

\* C6: when folder_path is no existing directory the call returns normally having
\* printed exactly one line, the error naming that path, and having opened no file.
C6_InvalidFolder ==
    (ppc \in {"loop", "returned", "raised"} /\ ~IsDirPath(folder_path)) =>
        /\ ppc = "returned"
        /\ out = << [t |-> "direrror", name |-> folder_path] >>
        /\ opened = <<>>

\* C6 witness: the call has returned for a path that does not exist, while the real
\* folder holds files.
C6_Witness ==
    /\ ppc = "returned"
    /\ folder_path = NoSuchPath
    /\ Len(names) >= 2
    /\ out # <<>>

\* The entry at position i is one the call hands to print_file_contents.
Selected(i) == attr[i] # "dir" /\ (extension = None \/ EndsWith(names[i], extension))

C8_AllOrNothing ==
    \A k \in 1..Len(out) : out[k].t = "open" =>
        /\ k + 2 <= Len(out)
        /\ out[k + 1] = [t |-> "content", name |-> out[k].name]
        /\ out[k + 2] = [t |-> "end", name |-> out[k].name]
=============================================================================
